---- MODULE Spec2Model ----
(***************************************************************************)
(* Model of oci-watcher: the control loop of main (ticker, signal channel, *)
(* select) and reconcileDeployments (desired-state fetch, the per-component *)
(* fetch/verify/unpack/deploy pipeline, the purge of stale deployments).   *)
(*                                                                         *)
(* The deployment tree <deployDir>/<name> is modelled per component name:  *)
(* absent, a regular file, or a directory with its .hash content, the      *)
(* payloads (by digest) whose files it holds, those it holds completely,   *)
(* and whether docker-compose.yaml is present.                             *)
(*                                                                         *)
(* The environment (registry, package content, docker-compose exit         *)
(* statuses) is the variable fault: for each name the step of its pipeline *)
(* that fails, until the environment heals (action Heal).                  *)
(***************************************************************************)
EXTENDS Integers, Sequences, FiniteSets, TLC

\* Largest number of components in the desired-state manifest.
MaxComponents == 2

\* Largest number of components whose pipeline the environment makes fail.
MaxFaults == 1

\* Capacity of ticker.C, the channel time.NewTicker creates.
TickerCapacity == 1

\* Component names, in the order the manifests list them.
NameOrder == <<"A", "B", "C">>
Names == {NameOrder[i] : i \in 1..Len(NameOrder)}

NoHash == "none"
OldDigest == "d1"
NewDigest == "d2"
Digests == {OldDigest, NewDigest}

\* Steps of a component's pipeline that the environment can make fail.
PipelineFaults == {"keyFetchFail", "pkgFetchFail", "unpackFail", "noApp", "sigInvalid", "downFail",
                   "extractFail", "loadFail", "psFail", "upFail"}
\* Failures of getAppDeployment.
RegistryFaults == {"unreachable", "noLayer", "parseError"}

---------------------------------------------------------------------------
(* The file system *)

NoDir == [kind |-> "none"]
RegFile == [kind |-> "file"]
Dir(h, fs, cs, dc) == [kind |-> "dir", hash |-> h, files |-> fs, complete |-> cs, compose |-> dc]
EmptyDir == Dir(NoHash, {}, {}, FALSE)

IsDir(e) == e.kind = "dir"

\* fileExists(path.Join(destDir, ".hash"))
HashFileExists(e) == IsDir(e) /\ e.hash # NoHash

\* fileExists(path.Join(destDir, "docker-compose.yaml"))
ComposeFileExists(e) == IsDir(e) /\ e.compose

\* os.WriteFile(hashFile, expectedHash): creates or truncates the file, never
\* its parent directory.
WriteHashFile(e, h) ==
    IF IsDir(e) THEN [ok |-> TRUE, entry |-> [e EXCEPT !.hash = h]]
    ELSE [ok |-> FALSE, entry |-> e]

\* os.RemoveAll(destDir); the code ignores its error, the removal is taken
\* to succeed.
RemoveAll(e) == NoDir

\* os.MkdirAll(destDir, 0o755), its error ignored
MkdirAll(e) == IF e.kind = "none" THEN EmptyDir ELSE e

\* unpackTgz(f, destDir, true) of the payload with digest d: hidden entries
\* (.hash among them) are skipped, so the stored digest is never written by
\* the extraction. A failing extraction stops before the archive's end.
UnpackTgz(e, d, dc, fails) ==
    IF fails
    THEN [ok |-> FALSE, entry |-> [e EXCEPT !.files = @ \cup {d}]]
    ELSE [ok |-> TRUE,
          entry |-> [e EXCEPT !.files = @ \cup {d}, !.complete = @ \cup {d},
                              !.compose = @ \/ dc]]

---------------------------------------------------------------------------
(* The desired state *)

\* ComponentSpec of the component named n. packageLocation is kept as the
\* pieces strings.Split(PackageLocation, "sha256:") yields.
Component(n) ==
    [name |-> n,
     keyLocation |-> <<"http://ghcr.io/v2/margo/keys/blobs/", "k1">>,
     packageLocation |-> <<"http://ghcr.io/v2/margo/pkgs/blobs/", NewDigest>>]

\* The manifests: the first k names, k = 0..MaxComponents.
Manifests ==
    {[i \in 1..k |-> Component(NameOrder[i])] : k \in 0..MaxComponents}

\* expectedHash := strings.Split(PackageLocation, "sha256:")[1]
ExpectedHash(c) == c.packageLocation[2]

ManifestNames(m) == {m[i].name : i \in 1..Len(m)}

VARIABLES
    desired,        \* the manifest the registry serves
    pkgCompose,     \* the payloads of the manifest's packages hold docker-compose.yaml
    fault,          \* fault[n]: the pipeline step of n the environment fails
    regFault,       \* the failure of getAppDeployment, or "ok"
    healed,         \* the environment has healed: no operation fails any more
    tree,           \* tree[n]: the entry <deployDir>/<n>
    running,        \* running[n]: the orchestrator has active instances for n
    pc,             \* position of the main goroutine
    deployments,    \* reconcileDeployments: the manifest fetched by this pass
    idx,            \* reconcileDeployments: index of the component being processed
    allowedDeployments, \* reconcileDeployments: names recorded as allowed
    scratch,        \* names whose scratch directory (os.MkdirTemp) exists
    tickPending,    \* the number of ticks ticker.C holds
    startsSinceTick, \* the passes started since the ticker last fired
    archive,        \* unpackTgz: the entries of the archive being extracted
    pos,            \* unpackTgz: the index of the next entry
    dest,           \* unpackTgz: the paths created under destDir, with their kind
    unpackResult,   \* unpackTgz: "running", "ok" (return nil) or "err"
    sigPending,     \* sigChan holds a signal (channel of capacity 1)
    sigDelivered,   \* a termination signal was delivered to the process
    cancelled,      \* the shared context ctx is cancelled
    log,            \* the operations of the pass in flight, in order
    treeAtStart,    \* tree when the pass in flight started
    result,         \* how the last pass ended: "none", "ok", "err"
    prevResult      \* how the pass before it ended

vars == <<desired, pkgCompose, fault, regFault, healed, tree, running, pc,
          deployments, idx, allowedDeployments, scratch, tickPending,
          sigPending, sigDelivered, cancelled, log, treeAtStart, result,
          prevResult, startsSinceTick, archive, pos, dest, unpackResult>>

unpackVars == <<archive, pos, dest, unpackResult>>

Event(op, n) == [op |-> op, name |-> n]

\* The operations the pass in flight has performed on n.
Ops(n) == {log[i].op : i \in {j \in 1..Len(log) : log[j].name = n}}

---------------------------------------------------------------------------
(* Collaborators of the reconciler *)

\* downloadFromOCI: rc.BlobGet fails on a registry failure and on a cancelled ctx.
DownloadFromOCI(fails, ctxDone) == ~fails /\ ~ctxDone

\* findAppFiles(tempDir): the *.app files of the unpacked package.
FindAppFiles(f) == IF f = "noApp" THEN <<>> ELSE <<"app.app">>

\* A verifier that accepts every signature.
VerifyGPGSignatureAcceptsAll(f) == TRUE

\* verifyGPGSignature(pubKey, app, appSig)
VerifyGPGSignature(f) == f # "sigInvalid"

\* exec "docker-compose down" in destDir: its exit status.
DockerComposeDown(f) == f # "downFail"

\* uploadToDocker for the *.tar files of the payload.
UploadToDocker(f) == f # "loadFail"

\* A world is what one loop iteration reads and writes:
\* [tree, running, log, scratch, status], status being "continue" (the loop
\* goes on), "error" (return err) or "panic".
World(t, r, l, s) == [tree |-> t, running |-> r, log |-> l, scratch |-> s, status |-> "continue"]

Logged(w, op, n) == [w EXCEPT !.log = Append(@, Event(op, n))]

ReturnErr(w) == [w EXCEPT !.status = "error"]

\* return err for a failure of the environment (registry, package content,
\* extraction, orchestrator, container runtime), recorded as "fault".
EnvErr(w, n) == ReturnErr(Logged(w, "fault", n))

Panic(w) == [w EXCEPT !.status = "panic"]

\* An ensureRunning that issues "up" whatever "ps -q" lists.
DockerEnsureRunningAlwaysUp(w, n, f) ==
    LET w0 == Logged(Logged(w, "ensureRunning", n), "ps", n)
        w1 == IF w0.running[n] THEN Logged(w0, "active", n) ELSE w0
    IN  IF f = "psFail" THEN Logged(Logged(w0, "psFailed", n), "failedToStart", n)
        ELSE IF f = "upFail" THEN Logged(Logged(w1, "up", n), "failedToStart", n)
        ELSE [Logged(w1, "up", n) EXCEPT !.running[n] = TRUE]

\* dockerEnsureRunning(dir) and its caller's handling (lines 231-233 and
\* 312-314): "ps -q", then "up" when nothing is listed; a failure is logged
\* and the loop goes on.
DockerEnsureRunning(w, n, f) ==
    LET w0 == Logged(Logged(w, "ensureRunning", n), "ps", n)
    IN  IF f = "psFail" THEN Logged(Logged(w0, "psFailed", n), "failedToStart", n)
        ELSE IF w0.running[n] THEN Logged(w0, "active", n)
        ELSE IF f = "upFail" THEN Logged(Logged(w0, "up", n), "failedToStart", n)
        ELSE [Logged(w0, "up", n) EXCEPT !.running[n] = TRUE]

---------------------------------------------------------------------------
(* reconcileDeployments, Step 1: one iteration of the loop over the components *)

\* Lines 238-271: scratch directory, key and package download, unpacking of
\* the package, search of the application descriptor, signature check.
FetchAndVerify(w, n, f, ctxDone) ==
    LET w1 == Logged([w EXCEPT !.scratch = @ \cup {n}], "mkdirTemp", n)
        w2 == Logged(w1, "fetchKey", n)
        w3 == Logged(w2, "fetchPkg", n)
        w4 == Logged(w3, "verify", n)
    IN  IF ~DownloadFromOCI(f = "keyFetchFail", ctxDone)
          THEN EnvErr(w2, n)
        ELSE IF ~DownloadFromOCI(f = "pkgFetchFail", ctxDone)
          THEN EnvErr(w3, n)
        ELSE IF f = "unpackFail" THEN EnvErr(w3, n)
        ELSE IF Len(FindAppFiles(f)) = 0 THEN Panic(Logged(w3, "fault", n))  \* appFiles[0]
        ELSE IF ~VerifyGPGSignature(f) THEN EnvErr(w4, n)
        ELSE w4

\* A tear-down that stops the old deployment but keeps its directory.
TearDownOldKeepsDirectory(w, n, f) ==
    IF ComposeFileExists(w.tree[n])
    THEN LET w1 == Logged(w, "down", n)
         IN  IF ~DockerComposeDown(f) THEN EnvErr(w1, n)
             ELSE [w1 EXCEPT !.running[n] = FALSE]
    ELSE w

\* Lines 277-284: tear down and discard the old directory when it holds a
\* docker-compose.yaml.
TearDownOld(w, n, f) ==
    IF ComposeFileExists(w.tree[n])
    THEN LET w1 == Logged(w, "down", n)
         IN  IF ~DockerComposeDown(f) THEN EnvErr(w1, n)
             ELSE Logged([w1 EXCEPT !.running[n] = FALSE,
                                    !.tree[n] = RemoveAll(@)], "removeAll", n)
    ELSE w

\* Lines 273-275: persist the expected digest.
PersistDigest(w, n, h) ==
    LET wr == WriteHashFile(w.tree[n], h)
        w1 == Logged([w EXCEPT !.tree[n] = wr.entry], "writeHash", n)
    IN  IF wr.ok THEN w1 ELSE ReturnErr(w1)

\* Lines 286-314: extract the payload into destDir, load its images, start it.
Materialize(w, n, h, dc, f) ==
    LET un == UnpackTgz(MkdirAll(w.tree[n]), h, dc, f = "extractFail")
        w1 == Logged([w EXCEPT !.tree[n] = un.entry], "extract", n)
        w2 == Logged(w1, "load", n)
    IN  IF ~un.ok THEN EnvErr(w1, n)
        ELSE IF ~UploadToDocker(f) THEN EnvErr(w2, n)
        ELSE DockerEnsureRunning(w2, n, f)

\* Lines 273-314, in the order of the code.
Apply(w, n, h, dc, f) ==
    LET w1 == PersistDigest(w, n, h)
        w2 == IF w1.status = "continue" THEN TearDownOld(w1, n, f) ELSE w1
    IN  IF w2.status = "continue" THEN Materialize(w2, n, h, dc, f) ELSE w2

\* Lines 216-236: the local deployment is up-to-date. An existing .hash is
\* taken to be readable (the error returns of lines 219-226 are left out).
UpToDate(e, h) == HashFileExists(e) /\ e.hash = h

\* Lines 214-314: the body of the loop for component c.
ReconcileComponent(w, c, dc, f, ctxDone) ==
    LET n == c.name
        h == ExpectedHash(c)
    IN  IF UpToDate(w.tree[n], h)
        THEN DockerEnsureRunning(Logged(w, "upToDate", n), n, f)
        ELSE LET v == FetchAndVerify(w, n, f, ctxDone)
             IN  IF v.status = "continue" THEN Apply(v, n, h, dc, f) ELSE v

---------------------------------------------------------------------------
(* reconcileDeployments, Step 2: purge *)

\* Lines 323-324: the entries the purge removes.
\* A purge that takes every entry of deployDir for stale.
StaleEveryEntry(t, allowed) == {n \in Names : t[n] # NoDir}

Stale(t, allowed) == {n \in Names : IsDir(t[n]) /\ n \notin allowed}

\* A purge that leaves the directory in place when its tear-down fails.
PurgeEntryKeptOnDownFailure(w, n, f) ==
    LET w1 == Logged(Logged(w, "purge", n), "down", n)
    IN  IF DockerComposeDown(f)
        THEN Logged([w1 EXCEPT !.running[n] = FALSE, !.tree[n] = RemoveAll(@)],
                    "removeAll", n)
        ELSE Logged(w1, "failedToStop", n)

\* Lines 325-332 for the entry n: "docker-compose down", its failure only
\* logged, then os.RemoveAll.
PurgeEntry(w, n, f) ==
    LET w1 == Logged(Logged(w, "purge", n), "down", n)
        w2 == IF DockerComposeDown(f) THEN [w1 EXCEPT !.running[n] = FALSE]
              ELSE Logged(w1, "failedToStop", n)
    IN  Logged([w2 EXCEPT !.tree[n] = RemoveAll(@)], "removeAll", n)

\* Lines 318-335: the loop over the entries of deployDir, i = 1..Len(NameOrder).
RECURSIVE PurgeFrom(_, _, _, _)
PurgeFrom(w, i, allowed, flt) ==
    IF i > Len(NameOrder) THEN w
    ELSE LET n == NameOrder[i]
         IN  PurgeFrom(IF n \in Stale(w.tree, allowed) THEN PurgeEntry(w, n, flt[n]) ELSE w,
                       i + 1, allowed, flt)

---------------------------------------------------------------------------
(* Initial states *)

\* The entries <deployDir>/<n> a pass can find for a component of the
\* manifest: nothing, a directory left by a deployment of the old package
\* (with or without docker-compose.yaml) or of the expected package.
ComponentEntries ==
    {NoDir, Dir(OldDigest, {OldDigest}, {OldDigest}, TRUE),
     Dir(OldDigest, {OldDigest}, {OldDigest}, FALSE),
     Dir(NewDigest, {NewDigest}, {NewDigest}, TRUE)}

\* The entries of the other names: nothing, a regular file, the directory of
\* a deployment the manifest no longer lists.
OtherEntries ==
    {NoDir, RegFile, Dir(OldDigest, {OldDigest}, {OldDigest}, TRUE)}

\* The environments: at most MaxFaults components of the manifest have a
\* failing pipeline step; the tear-down of any other name may fail.
Faulty(f, m) == {n \in ManifestNames(m) : f[n] # "ok"}

Init ==
    /\ desired \in Manifests
    /\ pkgCompose \in IF Len(desired) = 0 THEN {FALSE} ELSE BOOLEAN
    /\ regFault \in {"ok"} \cup RegistryFaults
    /\ fault \in {f \in [Names -> {"ok"} \cup PipelineFaults] :
                    /\ \A n \in Names \ ManifestNames(desired) : f[n] \in {"ok", "downFail"}
                    /\ Cardinality(Faulty(f, desired)) <= MaxFaults
                    /\ regFault # "ok" => \A n \in Names : f[n] = "ok"}
    /\ healed = FALSE
    /\ tree \in {t \in [Names -> ComponentEntries \cup OtherEntries] :
                   \A n \in Names : t[n] \in IF n \in ManifestNames(desired)
                                              THEN ComponentEntries ELSE OtherEntries}
    /\ running = [n \in Names |-> FALSE]
    /\ pc = "select"
    /\ deployments = <<>>
    /\ idx = 1
    /\ allowedDeployments = {}
    /\ scratch = {}
    /\ tickPending = 0
    /\ startsSinceTick = 0
    /\ archive = <<>>
    /\ pos = 1
    /\ dest = {}
    /\ unpackResult = "ok"
    /\ sigPending = FALSE
    /\ sigDelivered = FALSE
    /\ cancelled = FALSE
    /\ log = <<>>
    /\ treeAtStart = tree
    /\ result = "none"
    /\ prevResult = "none"

---------------------------------------------------------------------------
(* The environment *)

envVars == <<desired, pkgCompose, fault, regFault, healed>>
passVars == <<deployments, idx, allowedDeployments, scratch, log, treeAtStart,
              result, prevResult>>

Alive == pc \notin {"exited", "crashed"}

\* A ticker whose channel queues every tick.
TickerSendQueues(n) == n + 1

\* The ticker's send on ticker.C, which holds n ticks: the tick is dropped
\* when the channel is full.
TickerSend(n) == IF n < TickerCapacity THEN n + 1 ELSE n

\* time.NewTicker(3 * time.Second): the ticker fires.
Tick ==
    /\ Alive
    /\ tickPending' = TickerSend(tickPending)
    /\ startsSinceTick' = 0
    /\ UNCHANGED <<envVars, passVars, tree, running, pc, sigPending, sigDelivered, cancelled>>
    /\ UNCHANGED unpackVars

\* signal.Notify(sigChan, SIGINT, SIGTERM): a signal is sent to sigChan, and
\* dropped when the channel still holds one.
Signal ==
    /\ Alive
    /\ sigPending' = TRUE
    /\ sigDelivered' = TRUE
    /\ UNCHANGED <<envVars, passVars, tree, running, pc, tickPending, cancelled>>
    /\ UNCHANGED <<startsSinceTick, unpackVars>>

\* From now on every registry, verification, extraction and orchestrator
\* operation succeeds.
Heal ==
    /\ Alive
    /\ ~healed
    /\ healed' = TRUE
    /\ fault' = [n \in Names |-> "ok"]
    /\ regFault' = "ok"
    /\ UNCHANGED <<desired, pkgCompose, passVars, tree, running, pc, tickPending,
                   sigPending, sigDelivered, cancelled>>
    /\ UNCHANGED <<startsSinceTick, unpackVars>>

---------------------------------------------------------------------------
(* main: the control loop *)

\* case <-ticker.C: reconcileDeployments is called.
SelectTick ==
    /\ pc = "select"
    /\ tickPending > 0
    /\ tickPending' = tickPending - 1
    /\ startsSinceTick' = startsSinceTick + 1
    /\ pc' = "reconcile"
    /\ log' = <<>>
    /\ treeAtStart' = tree
    /\ prevResult' = result
    /\ result' = "none"
    /\ UNCHANGED <<envVars, tree, running, deployments, idx, allowedDeployments,
                   scratch, sigPending, sigDelivered, cancelled>>
    /\ UNCHANGED unpackVars

\* case <-sigChan: cancel(), running = false, the loop ends.
SelectSignal ==
    /\ pc = "select"
    /\ sigPending
    /\ sigPending' = FALSE
    /\ cancelled' = TRUE
    /\ pc' = "exited"
    /\ UNCHANGED <<envVars, passVars, tree, running, tickPending, sigDelivered>>
    /\ UNCHANGED <<startsSinceTick, unpackVars>>

\* Lines 82-84 of main: the error of the pass, if any, is logged and the
\* loop selects again.
LogResult ==
    /\ pc = "returned"
    /\ pc' = "select"
    /\ log' = <<>>
    /\ treeAtStart' = tree
    /\ prevResult' = "none"
    /\ deployments' = <<>>
    /\ idx' = 1
    /\ allowedDeployments' = {}
    /\ UNCHANGED <<envVars, tree, running, scratch, result, tickPending, sigPending,
                   sigDelivered, cancelled>>
    /\ UNCHANGED <<startsSinceTick, unpackVars>>

---------------------------------------------------------------------------
(* reconcileDeployments *)

\* getAppDeployment(deployRepo): fails on a registry failure, on a missing
\* desired-state layer, on unparsable content and on a cancelled ctx.
\* A getAppDeployment whose error is ignored.
GetAppDeploymentIgnoresError(rf, ctxDone) == TRUE

GetAppDeployment(rf, ctxDone) == rf = "ok" /\ ~ctxDone

\* Lines 202-207.
FetchDesiredState ==
    /\ pc = "reconcile"
    /\ IF GetAppDeployment(regFault, cancelled)
       THEN /\ log' = log \o <<Event("getAppDeployment", "-"), Event("desiredState", "-")>>
            /\ deployments' = desired
            /\ pc' = IF Len(desired) = 0 THEN "purge" ELSE "loop"
            /\ result' = result
       ELSE /\ log' = log \o <<Event("getAppDeployment", "-"), Event("fault", "-")>>
            /\ deployments' = <<>>
            /\ pc' = "returned"
            /\ result' = "err"
    /\ idx' = 1
    /\ allowedDeployments' = {}
    /\ UNCHANGED <<envVars, tree, running, scratch, tickPending, sigPending,
                   sigDelivered, cancelled, treeAtStart, prevResult>>
    /\ UNCHANGED <<startsSinceTick, unpackVars>>

\* Lines 210-315: one iteration of the loop. An error returns from
\* reconcileDeployments, a panic ends the process; either way the deferred
\* os.RemoveAll(tempDir) calls run, and on a panic main's deferred cancel().
ProcessComponent ==
    /\ pc = "loop"
    /\ LET c == deployments[idx]
           w == ReconcileComponent(World(tree, running, log, scratch), c,
                                   pkgCompose, fault[c.name], cancelled)
       IN  /\ allowedDeployments' = allowedDeployments \cup {c.name}
           /\ tree' = w.tree
           /\ running' = w.running
           /\ log' = w.log
           /\ IF w.status = "continue"
              THEN /\ idx' = idx + 1
                   /\ pc' = IF idx = Len(deployments) THEN "purge" ELSE "loop"
                   /\ scratch' = w.scratch
                   /\ UNCHANGED <<result, cancelled>>
              ELSE IF w.status = "error"
              THEN /\ pc' = "returned"
                   /\ result' = "err"
                   /\ scratch' = {}
                   /\ UNCHANGED <<idx, cancelled>>
              ELSE /\ pc' = "crashed"
                   /\ scratch' = {}
                   /\ cancelled' = TRUE
                   /\ UNCHANGED <<idx, result>>
    /\ UNCHANGED <<envVars, deployments, tickPending, sigPending, sigDelivered,
                   treeAtStart, prevResult>>
    /\ UNCHANGED <<startsSinceTick, unpackVars>>

\* Lines 317-337: the purge, then return nil (the deferred removals run).
Purge ==
    /\ pc = "purge"
    /\ LET w == PurgeFrom(World(tree, running, log, scratch), 1, allowedDeployments, fault)
       IN  /\ tree' = w.tree
           /\ running' = w.running
           /\ log' = Append(w.log, Event("purgeDone", "-"))
    /\ scratch' = {}
    /\ pc' = "returned"
    /\ result' = "ok"
    /\ UNCHANGED <<envVars, deployments, idx, allowedDeployments, tickPending,
                   sigPending, sigDelivered, cancelled, treeAtStart, prevResult>>
    /\ UNCHANGED <<startsSinceTick, unpackVars>>

Next ==
    \/ Tick
    \/ Signal
    \/ Heal
    \/ SelectTick
    \/ SelectSignal
    \/ LogResult
    \/ FetchDesiredState
    \/ ProcessComponent
    \/ Purge

Spec == Init /\ [][Next]_vars

\* A termination signal delivered while reconcileDeployments is running.
SignalInFlight == pc \in {"reconcile", "loop", "purge"} /\ Signal

InFlightNext ==
    \/ Tick
    \/ SignalInFlight
    \/ Heal
    \/ SelectTick
    \/ SelectSignal
    \/ LogResult
    \/ FetchDesiredState
    \/ ProcessComponent
    \/ Purge

\* The behaviours of Spec in which termination signals arrive only while a
\* pass is in flight.
InFlightSpec == Init /\ [][InFlightNext]_vars

\* The control loop when no termination signal is ever delivered. The ticker
\* fires every 3 seconds and the main goroutine is never blocked for ever in
\* a step of a pass, hence the weak fairness of the steps; the fairness of
\* Heal states that the environment's failures are transient.
LiveNext ==
    \/ Tick
    \/ Heal
    \/ SelectTick
    \/ LogResult
    \/ FetchDesiredState
    \/ ProcessComponent
    \/ Purge

\* The control loop under shutdown: the main goroutine is never blocked for
\* ever in a step of a pass (weak fairness of the steps), and a select that
\* finds sigChan ready again and again ends up taking it, for select picks at
\* random among the ready cases (strong fairness of the signal case).
ShutdownSpec ==
    /\ Init
    /\ [][Next]_vars
    /\ WF_vars(LogResult)
    /\ WF_vars(FetchDesiredState)
    /\ WF_vars(ProcessComponent)
    /\ WF_vars(Purge)
    /\ SF_vars(SelectSignal)

LiveSpec ==
    /\ Init
    /\ [][LiveNext]_vars
    /\ WF_vars(Tick)
    /\ WF_vars(Heal)
    /\ WF_vars(SelectTick)
    /\ WF_vars(LogResult)
    /\ WF_vars(FetchDesiredState)
    /\ WF_vars(ProcessComponent)
    /\ WF_vars(Purge)

---------------------------------------------------------------------------
(* unpackTgz, entry by entry *)

\* The longest archive and the deepest entry name.
MaxEntries == 2
MaxDepth == 2

\* The segments of entry names; the segments of DotSegments begin with '.'.
Segments == {"a", "b", ".h"}
DotSegments == {".h"}

\* header.Name: a path, as the sequence of its segments.
EntryNames == UNION {[1..k -> Segments] : k \in 1..MaxDepth}

\* header.Typeflag: tar.TypeDir, tar.TypeReg, any other type (a symlink).
TypeDir == "dir"
TypeReg == "reg"
TypeOther == "other"

Entries == [name : EntryNames, type : {TypeDir, TypeReg, TypeOther}]

Archives == UNION {[1..k -> Entries] : k \in 0..MaxEntries}

\* Line 36: strings.HasPrefix(header.Name, ".").
Hidden(name) == name[1] \in DotSegments

\* What destDir holds at path p: "dir", "reg" or "none".
KindAt(d, p) ==
    IF \E x \in d : x.path = p THEN (CHOOSE x \in d : x.path = p).kind ELSE "none"

Parent(p) == SubSeq(p, 1, Len(p) - 1)

Prefixes(p) == {SubSeq(p, 1, k) : k \in 1..Len(p)}

\* Line 45, os.MkdirAll(target): creates the directory and its missing
\* ancestors; fails when the target or an ancestor is a regular file.
OsMkdirAll(d, p) ==
    IF \E q \in Prefixes(p) : KindAt(d, q) = TypeReg
    THEN [ok |-> FALSE, dest |-> d]
    ELSE [ok |-> TRUE, dest |-> d \cup {[path |-> q, kind |-> TypeDir] : q \in Prefixes(p)}]

\* Line 49, os.OpenFile(target, O_CREATE|O_WRONLY): creates the file in an
\* existing directory; fails when the parent directory does not exist
\* (ENOENT), is a regular file (ENOTDIR) or the target is a directory (EISDIR).
OsOpenFile(d, p) ==
    IF /\ Len(p) = 1 \/ KindAt(d, Parent(p)) = TypeDir
       /\ KindAt(d, p) # TypeDir
    THEN [ok |-> TRUE, dest |-> d \cup {[path |-> p, kind |-> TypeReg]}]
    ELSE [ok |-> FALSE, dest |-> d]

\* Lines 36-60: one iteration of the loop, on entry e with skipHidden set.
UnpackEntry(d, e) ==
    IF Hidden(e.name) THEN [ok |-> TRUE, dest |-> d]
    ELSE IF e.type = TypeDir THEN OsMkdirAll(d, e.name)
    ELSE IF e.type = TypeReg THEN OsOpenFile(d, e.name)
    ELSE [ok |-> TRUE, dest |-> d]

controlVars == <<desired, pkgCompose, fault, regFault, healed, tree, running, pc,
                 deployments, idx, allowedDeployments, scratch, tickPending,
                 sigPending, sigDelivered, cancelled, log, treeAtStart, result,
                 prevResult, startsSinceTick>>

\* unpackTgz is called on a well-formed archive and an empty destDir.
UnpackInit ==
    /\ archive \in Archives
    /\ pos = 1
    /\ dest = {}
    /\ unpackResult = "running"
    /\ desired = <<>>
    /\ pkgCompose = FALSE
    /\ regFault = "ok"
    /\ fault = [n \in Names |-> "ok"]
    /\ healed = FALSE
    /\ tree = [n \in Names |-> NoDir]
    /\ running = [n \in Names |-> FALSE]
    /\ pc = "loop"
    /\ deployments = <<>>
    /\ idx = 1
    /\ allowedDeployments = {}
    /\ scratch = {}
    /\ tickPending = 0
    /\ startsSinceTick = 0
    /\ sigPending = FALSE
    /\ sigDelivered = FALSE
    /\ cancelled = FALSE
    /\ log = <<>>
    /\ treeAtStart = tree
    /\ result = "none"
    /\ prevResult = "none"

\* Lines 29-60: tr.Next() yields an entry, which is extracted or skipped; an
\* error returns from unpackTgz.
UnpackStep ==
    /\ unpackResult = "running"
    /\ pos <= Len(archive)
    /\ LET r == UnpackEntry(dest, archive[pos])
       IN  /\ dest' = r.dest
           /\ pos' = IF r.ok THEN pos + 1 ELSE pos
           /\ unpackResult' = IF r.ok THEN "running" ELSE "err"
    /\ UNCHANGED <<archive, controlVars>>

\* Lines 30-32 and 62: io.EOF ends the loop, unpackTgz returns nil.
UnpackEOF ==
    /\ unpackResult = "running"
    /\ pos > Len(archive)
    /\ unpackResult' = "ok"
    /\ UNCHANGED <<archive, pos, dest, controlVars>>

UnpackNext == UnpackStep \/ UnpackEOF

UnpackSpec == UnpackInit /\ [][UnpackNext]_vars

---------------------------------------------------------------------------
(* Vocabulary of the properties *)

\* The operations of the pass in flight, whatever their target.
PassOps == {log[i].op : i \in 1..Len(log)}

\* reconcileDeployments has returned and main has not selected again.
PassReturned == pc = "returned"

\* The pass in flight fetched the desired-state manifest.
ManifestFetched == "desiredState" \in PassOps

\* The pass in flight executed the purge phase.
PurgeExecuted == "purgeDone" \in PassOps

\* No operation of the environment failed during the pass in flight.
AllSucceeded == PassOps \cap {"fault", "failedToStart", "failedToStop"} = {}

\* The pass in flight downloaded a key or a package for n.
Fetched(n) == Ops(n) \cap {"fetchKey", "fetchPkg"} # {}

\* <deployDir>/<n> holds the stored digest h.
StoredDigestIs(e, h) == HashFileExists(e) /\ e.hash = h

\* <deployDir>/<n> is applied: its stored digest is the manifest's one.
Applied(n) == StoredDigestIs(tree[n], NewDigest)

\* The apply pipeline of n ran to its end in the pass in flight.
ApplySucceeded(n) == {"writeHash", "load", "ensureRunning"} \subseteq Ops(n)

\* The pipeline of n, run alone on the tree the pass started with and with
\* every operation succeeding, goes through.
WouldSucceed(n) ==
    ReconcileComponent(World(treeAtStart, running, <<>>, {}), Component(n),
                       pkgCompose, "ok", FALSE).status = "continue"

---------------------------------------------------------------------------
(* C1 *)

\* C1: failure isolation. When a pass has returned, if the key or package
\* fetch of a component a of the manifest failed in it and another component
\* b needed an apply that would succeed, then b is applied (its stored digest
\* is the manifest's digest) and ensureRunning was called on b.
C1_FailureIsolation ==
    PassReturned =>
        \A a, b \in ManifestNames(deployments) :
            ( /\ a # b
              /\ fault[a] \in {"keyFetchFail", "pkgFetchFail"}
              /\ "fault" \in Ops(a)
              /\ fault[b] = "ok"
              /\ ~UpToDate(treeAtStart[b], NewDigest)
              /\ WouldSucceed(b) )
            => Applied(b) /\ "ensureRunning" \in Ops(b)

---------------------------------------------------------------------------
(* C2 *)

\* C2: rejection. When the signature check of component n's package fails in
\* a pass, the pass leaves <deployDir>/<n> (stored digest and content) as it
\* was when the pass started and issues no tear-down and no bring-up for n.
C2_Rejection ==
    \A n \in Names :
        (fault[n] = "sigInvalid" /\ "verify" \in Ops(n))
        => /\ tree[n] = treeAtStart[n]
           /\ Ops(n) \cap {"writeHash", "down", "removeAll", "extract", "up"} = {}

\* A pass rejected the package of a component that has a stale directory.
C2_Witness ==
    /\ PassReturned
    /\ \E n \in Names :
          /\ fault[n] = "sigInvalid"
          /\ "verify" \in Ops(n)
          /\ StoredDigestIs(tree[n], OldDigest)

---------------------------------------------------------------------------
(* C3 *)

\* C3: digest honesty. Whenever a pass has returned, every deployment
\* directory whose .hash holds digest D holds the complete payload of the
\* package with digest D.
C3_DigestHonesty ==
    PassReturned =>
        \A n \in Names :
            HashFileExists(tree[n]) => tree[n].hash \in tree[n].complete

---------------------------------------------------------------------------
(* C4 *)

\* C4: purge always runs. Every pass that fetched the desired-state manifest
\* has executed the purge phase when it returns.
C4_PurgeAlwaysRuns ==
    (PassReturned /\ ManifestFetched) => PurgeExecuted

---------------------------------------------------------------------------
(* C5 *)

\* C5: round trip. After the apply pipeline of a component succeeded in a
\* pass, <deployDir>/<name>/.hash exists and holds exactly the manifest's
\* digest, and ensureRunning was invoked on the directory.
C5_RoundTrip ==
    \A n \in Names :
        ApplySucceeded(n) => Applied(n) /\ "ensureRunning" \in Ops(n)

---------------------------------------------------------------------------
(* C6 *)

\* C6: idempotence. A pass that follows a pass which completed, with the
\* same manifest and a tree only the reconciler touched, performs no key or
\* package fetch and leaves the deployment tree unchanged.
C6_Idempotence ==
    (PassReturned /\ prevResult = "ok") =>
        /\ \A n \in Names : ~Fetched(n)
        /\ tree = treeAtStart

---------------------------------------------------------------------------
(* C7 *)

\* C7: convergence in one pass. With manifest <<A, B>>, A up-to-date, B
\* without a deployment directory and every operation succeeding, the pass
\* ends with A untouched and ensured running and with B present, holding its
\* digest and payload, and ensured running.
C7_Convergence ==
    ( /\ PassReturned
      /\ ManifestFetched
      /\ Len(deployments) = 2
      /\ UpToDate(treeAtStart[deployments[1].name], NewDigest)
      /\ treeAtStart[deployments[2].name] = NoDir
      /\ AllSucceeded )
    => LET a == deployments[1].name
           b == deployments[2].name
       IN  /\ tree[a] = treeAtStart[a]
           /\ "ensureRunning" \in Ops(a)
           /\ Applied(b)
           /\ NewDigest \in tree[b].complete
           /\ "ensureRunning" \in Ops(b)

---------------------------------------------------------------------------
(* C8 *)

\* C8: purge correctness. After a pass that reached the purge phase, every
\* top-level directory of deployDir is named in the manifest (a stale one is
\* removed even when its tear-down fails), and every directory of the
\* manifest whose stored digest already matched is unchanged.
C8_PurgeCorrectness ==
    (PassReturned /\ PurgeExecuted) =>
        /\ \A n \in Names : IsDir(tree[n]) => n \in ManifestNames(deployments)
        /\ \A n \in ManifestNames(deployments) :
              UpToDate(treeAtStart[n], NewDigest) => tree[n] = treeAtStart[n]

\* A purge removed a stale directory whose tear-down failed and left an
\* up-to-date directory of the manifest in place.
C8_Witness ==
    /\ PassReturned
    /\ PurgeExecuted
    /\ \E n \in Names :
          IsDir(treeAtStart[n]) /\ "failedToStop" \in Ops(n) /\ tree[n] = NoDir
    /\ \E n \in ManifestNames(deployments) :
          UpToDate(treeAtStart[n], NewDigest) /\ IsDir(tree[n])

---------------------------------------------------------------------------
(* C9 *)

\* Every component of the manifest has a deployment directory whose stored
\* digest is the manifest's digest, and no stale directory exists.
Converged ==
    /\ \A n \in ManifestNames(desired) : Applied(n)
    /\ \A n \in Names \ ManifestNames(desired) : ~IsDir(tree[n])

\* C9: eventual convergence under retry. With a fixed manifest and no
\* termination signal, once every operation of the environment succeeds the
\* local state reaches, after finitely many ticks, and then stays in the
\* converged state (unless the process has died before the environment
\* healed).
C9_EventualConvergence == <>[](Converged \/ pc = "crashed")

---------------------------------------------------------------------------
(* C10 *)

\* C10: the control loop never terminates because of a reconciliation pass:
\* the process leaves the loop only through the signal case of the select,
\* after a termination signal was delivered.
C10_LoopSurvivesPass ==
    ~Alive => (pc = "exited" /\ sigDelivered)

---------------------------------------------------------------------------
(* C11 *)

\* A call of reconcileDeployments is in flight.
PassInFlight == pc \in {"reconcile", "loop", "purge"}

\* C11: non-overlapping passes with tick skipping. A pass starts only from
\* the select, when no pass is in flight, and the ticks that elapse during a
\* pass are not queued: ticker.C never holds more than one tick, so between
\* two firings of the ticker at most one pass starts.
C11_TickSkipping ==
    /\ tickPending <= 1
    /\ startsSinceTick <= 1
    /\ (PassInFlight => startsSinceTick + tickPending <= 1)

\* A pass is in flight and the ticker has fired again during it: the tick
\* waits in ticker.C.
C11_Witness ==
    /\ PassInFlight
    /\ pc = "purge"
    /\ tickPending = 1
    /\ startsSinceTick = 0
    /\ result # "none" \/ prevResult # "none"

---------------------------------------------------------------------------
(* C12 *)

\* The loop has received the signal: it was delivered and has left sigChan.
SignalReceived == sigDelivered /\ ~sigPending

\* C12: graceful shutdown. Once a termination signal has been delivered to
\* the process, the control loop accepts no tick any more: no new
\* reconciliation pass starts after the delivery.
C12_NoPassAfterDelivery ==
    [][(sigDelivered /\ pc = "select") => pc' # "reconcile"]_vars

\* What the loop does guarantee (under ShutdownSpec): once the signal case of
\* the select is taken the shared context is cancelled and the loop has left,
\* and after a delivery the process eventually leaves the loop.
ShutdownOnReceipt ==
    /\ [](SignalReceived => (pc = "exited" /\ cancelled))
    /\ (sigDelivered ~> ~Alive)

---------------------------------------------------------------------------
(* C13 *)

\* The position of component n in the manifest of the pass in flight.
IndexOf(n) == CHOOSE i \in 1..Len(deployments) : deployments[i].name = n

\* C13: up-to-date path and self-healing. For a component found up-to-date
\* the pass fetches neither key nor package and leaves the directory as it
\* was, calls ensureRunning, which issues the bring-up command if and only if
\* "ps -q" succeeded and listed no active instance, and goes on with the next
\* component even when ensureRunning failed.
C13_UpToDatePath ==
    \A n \in Names :
        "upToDate" \in Ops(n) =>
            /\ ~Fetched(n)
            /\ tree[n] = treeAtStart[n]
            /\ "ensureRunning" \in Ops(n)
            /\ ("up" \in Ops(n) <=> Ops(n) \cap {"psFailed", "active"} = {})
            /\ IndexOf(n) < idx

\* ensureRunning failed on an up-to-date component and the loop went on to
\* the next component.
C13_Witness ==
    \E n, m \in Names :
        /\ n # m
        /\ "upToDate" \in Ops(n)
        /\ "failedToStart" \in Ops(n)
        /\ Ops(m) # {}

---------------------------------------------------------------------------
(* C14 *)

\* The positions in the log of the operation op on n.
Positions(op, n) == {i \in 1..Len(log) : log[i] = Event(op, n)}

\* Every operation a on n precedes every operation b on n.
Precedes(a, b, n) == \A i \in Positions(a, n), j \in Positions(b, n) : i < j

\* C14: tear-down before replace. When the new payload is extracted for a
\* component whose directory held a docker-compose.yaml at the start of the
\* pass, the bring-down command and the removal of the old directory were
\* both done before the extraction began, and the directory holds files of
\* the new payload only.
C14_TearDownBeforeReplace ==
    \A n \in Names :
        (ComposeFileExists(treeAtStart[n]) /\ "extract" \in Ops(n)) =>
            /\ {"down", "removeAll"} \subseteq Ops(n)
            /\ Precedes("down", "removeAll", n)
            /\ Precedes("removeAll", "extract", n)
            /\ IsDir(tree[n])
            /\ tree[n].files = {ExpectedHash(Component(n))}

\* A pass replaced a directory that held the old payload and its
\* docker-compose.yaml, and the apply ran to its end.
C14_Witness ==
    /\ PassReturned
    /\ \E n \in Names :
          /\ ComposeFileExists(treeAtStart[n])
          /\ OldDigest \in treeAtStart[n].files
          /\ ApplySucceeded(n)
          /\ tree[n].files = {NewDigest}

---------------------------------------------------------------------------
(* C15 *)

\* The bring-down command of the replacement of n exited non-zero.
ReplaceDownFailed(n) ==
    /\ "purge" \notin Ops(n)
    /\ "down" \in Ops(n)
    /\ "removeAll" \notin Ops(n)
    /\ "fault" \in Ops(n)

\* The bring-down command of the purge of n exited non-zero.
PurgeDownFailed(n) == "purge" \in Ops(n) /\ "failedToStop" \in Ops(n)

\* C15: a tear-down failure does not halt reconciliation. When a pass has
\* returned and the bring-down command exited non-zero in it, for the
\* replacement of a changed component or for the purge of a stale directory,
\* the pass went on: every component of the manifest was processed and the
\* purge phase was executed.
C15_TearDownFailureDoesNotHalt ==
    PassReturned =>
        \A n \in Names :
            (ReplaceDownFailed(n) \/ PurgeDownFailed(n)) =>
                /\ allowedDeployments = ManifestNames(deployments)
                /\ PurgeExecuted

---------------------------------------------------------------------------
(* C16 *)

\* C16: scratch cleanup. No scratch directory outlives the pipeline that
\* created it: when the processing of the next component begins, when the
\* purge begins and when the pass has returned, no scratch directory exists.
C16_ScratchCleanup ==
    pc \in {"loop", "purge", "returned"} => scratch = {}

---------------------------------------------------------------------------
(* C17 *)

\* C17: in-flight cancellation, under InFlightSpec, where a signal arrives
\* only while a pass is in flight. When a pass has returned and a shutdown
\* request has arrived, the shared context is cancelled: it was set during
\* the pass.
C17_InFlightCancellation ==
    (PassReturned /\ sigDelivered) => cancelled

---------------------------------------------------------------------------
(* C18 *)

\* C18: a desired-state fetch failure aborts the pass with no effect. When a
\* pass has returned and getAppDeployment failed in it (registry unreachable,
\* no layer of the desired-state media type, unparsable content), the pass
\* returned the error, fetched no package, applied, tore down and purged
\* nothing, and the deployment tree is as the pass found it.
C18_FetchFailureNoEffect ==
    (PassReturned /\ regFault # "ok") =>
        /\ result = "err"
        /\ PassOps = {"getAppDeployment", "fault"}
        /\ \A n \in Names : Ops(n) = {}
        /\ tree = treeAtStart
        /\ scratch = {}

\* A pass has returned on a registry without a desired-state layer, while a
\* component of the manifest needed an apply and a stale directory waited
\* for the purge.
C18_Witness ==
    /\ PassReturned
    /\ regFault = "noLayer"
    /\ "fault" \in PassOps
    /\ \E n \in ManifestNames(desired) : ~Applied(n)
    /\ Stale(tree, ManifestNames(desired)) # {}

---------------------------------------------------------------------------
(* C20 *)

\* C20: the purge spares the manifest. In every pass, the purge phase tears
\* down and removes only entries that were directories when the pass began
\* and whose name is no component name of the manifest the pass fetched; a
\* regular file of deployDir outside the manifest is left as it is.
C20_PurgeSparesManifest ==
    \A n \in Names :
        /\ "purge" \in Ops(n) =>
              /\ n \notin ManifestNames(deployments)
              /\ IsDir(treeAtStart[n])
        /\ (treeAtStart[n] = RegFile /\ n \notin ManifestNames(deployments)) =>
              tree[n] = RegFile

\* A pass has purged a stale directory while deployDir held a regular file
\* and the directory of a component of the manifest whose start failed.
C20_Witness ==
    /\ PassReturned
    /\ PurgeExecuted
    /\ \E a, b, c \in Names :
          /\ a \in ManifestNames(deployments)
          /\ "failedToStart" \in Ops(a)
          /\ IsDir(tree[a])
          /\ "purge" \in Ops(b)
          /\ tree[b] = NoDir
          /\ treeAtStart[c] = RegFile
          /\ tree[c] = RegFile

---------------------------------------------------------------------------
(* C19 *)

\* The entries of the archive that are neither hidden nor of another type
\* than directory and regular file.
Extractable == {i \in 1..Len(archive) :
                   ~Hidden(archive[i].name) /\ archive[i].type \in {TypeDir, TypeReg}}

\* C19: extraction with hidden-entry skipping, under UnpackSpec. For every
\* archive, when unpackTgz has returned, it returned success, destDir holds
\* the directory or the regular file of every entry that is a directory or a
\* regular file and whose name does not begin with '.', and holds nothing
\* else than these and the directories above them: nothing of a hidden entry.
C19_Extraction ==
    unpackResult # "running" =>
        /\ unpackResult = "ok"
        /\ \A i \in Extractable :
              [path |-> archive[i].name, kind |-> archive[i].type] \in dest
        /\ \A x \in dest :
              \E i \in Extractable : x.path \in Prefixes(archive[i].name)

\* What holds of unpackTgz: a hidden entry or an entry of another type
\* never fails the extraction; it fails only on a directory or a regular
\* file it cannot create.
UnpackFailsOnCreation ==
    unpackResult = "err" =>
        /\ pos \in Extractable
        /\ \A x \in dest : ~Hidden(x.path)

====
